---------------------------- MODULE Spec2Model ----------------------------
(***************************************************************************)
(* A model of mne/fiff/evoked.py (Evoked.__init__ = read_evoked,           *)
(* Evoked.save = write_evoked) and of the tag encoders of mne/fiff/write.py *)
(*                                                                         *)
(* A file on disk is a sequence of tags.  A tag is a record                *)
(*   [kind, type, size, next, data]                                        *)
(* the four header fields the encoders write followed by the payload.      *)
(* A float is a rational n/d in lowest terms: float64 arithmetic is taken   *)
(* as exact, and a float32 keeps F32Bits significant bits, so that the     *)
(* '>f4' re-encoding of the writer loses precision as it does in the code. *)
(* Strings are sequences of one-character strings.                         *)
(***************************************************************************)
EXTENDS Integers, Sequences, FiniteSets, TLC

\* ------------------------------------------------------------------ bounds
MaxEvoked == 2      \* evoked blocks in a source file
MaxAspects == 2     \* ordinary aspect blocks in one evoked block
MaxChan == 2        \* channels, local channel-info tags
F32Bits == 3        \* significant bits a float32 keeps in this model
MaxName == 17       \* characters of a channel name handed to write_ch_info
MaxTags == 2        \* tags written in one run of the encoders alone

\* an optional value is <<>> (absent, unbound) or <<v>>
None == <<>>
Some(v) == <<v>>
IsSome(o) == o # <<>>
Get(o) == o[1]

\* ----------------------------------------------------------------- numbers
Abs(x) == IF x < 0 THEN -x ELSE x

Sign(x) == IF x < 0 THEN -1 ELSE 1

RECURSIVE Pow2(_)
Pow2(n) == IF n <= 0 THEN 1 ELSE 2 * Pow2(n - 1)

\* the number of bits of a non-negative integer
RECURSIVE BitLen(_)
BitLen(x) == IF x <= 0 THEN 0 ELSE 1 + BitLen(x \div 2)

\* a / b rounded to the nearest integer, ties to even (a >= 0, b > 0)
RoundDiv(a, b) ==
    LET q == a \div b
        r == a % b
    IN  IF 2 * r < b THEN q
        ELSE IF 2 * r > b THEN q + 1
        ELSE IF q % 2 = 0 THEN q ELSE q + 1

RECURSIVE Gcd(_, _)
Gcd(a, b) == IF b = 0 THEN a ELSE Gcd(b, a % b)

\* not-a-number, what 0.0 / 0 gives; every operation on it gives it again
NaN == [n |-> 0, d |-> 0]

\* the rational n / d in lowest terms, d > 0; NaN when d = 0
QNorm(n, d) ==
    IF d = 0 THEN NaN
    ELSE LET g == Gcd(Abs(n), Abs(d))
         IN  [n |-> Sign(d) * (n \div g), d |-> Abs(d) \div g]

Q(n) == [n |-> n, d |-> 1]
QAdd(a, b) == QNorm(a.n * b.d + b.n * a.d, a.d * b.d)
QSub(a, b) == QNorm(a.n * b.d - b.n * a.d, a.d * b.d)
QMul(a, b) == QNorm(a.n * b.n, a.d * b.d)
QDiv(a, b) == QNorm(a.n * b.d, a.d * b.n)
QLeq(a, b) == a.n * b.d <= b.n * a.d
QLess(a, b) == a.n * b.d < b.n * a.d
QAbs(a) == [n |-> Abs(a.n), d |-> a.d]

\* the least t >= 0 with floor(a * 2^t / d) >= 2^F32Bits (a > 0)
RECURSIVE UpShift(_, _, _)
UpShift(a, d, t) ==
    IF (a * Pow2(t)) \div d >= Pow2(F32Bits) THEN t ELSE UpShift(a, d, t + 1)

\* np.array(x, dtype='>f4'): the nearest value with F32Bits significant bits
F32(x) ==
    IF x.n = 0 THEN x
    ELSE LET a == Abs(x.n)
             t == UpShift(a, x.d, 0)
             q == Pow2(BitLen((a * Pow2(t)) \div x.d) - F32Bits)
         IN  QNorm(Sign(x.n) * RoundDiv(a * Pow2(t), x.d * q) * q, Pow2(t))

RECURSIVE QSum(_)
QSum(s) == IF s = <<>> THEN Q(0) ELSE QAdd(Head(s), QSum(Tail(s)))

RECURSIVE Concat(_)
Concat(ss) == IF ss = <<>> THEN <<>> ELSE Head(ss) \o Concat(Tail(ss))

\* ---------------------------------------------------------------- matrices
\* a matrix is a sequence of rows; its shape is kept beside it because a
\* matrix with no rows still has a column count in numpy
Mat(rows, nr, nc) == [rows |-> rows, nr |-> nr, nc |-> nc]

\* ndarray.T
Transpose(m) ==
    Mat([c \in 1..m.nc |-> [r \in 1..m.nr |-> m.rows[r][c]]], m.nc, m.nr)

\* np.array(mat, dtype='>f4')
F32Mat(m) ==
    Mat([r \in 1..m.nr |-> [c \in 1..m.nc |-> F32(m.rows[r][c])]], m.nr, m.nc)

\* ------------------------------------------------------------ tag encoders
Tag(kind, type, size, next, data) ==
    [kind |-> kind, type |-> type, size |-> size, next |-> next, data |-> data]

\* _write: the header, then the payload; the size of a string is its length
WriteTag(kind, data_size, type, data) == Tag(kind, type, data_size, "SEQ", data)

write_int(kind, data) == WriteTag(kind, 4, "FIFFT_INT", data)

write_float(kind, data) == WriteTag(kind, 4, "FIFFT_FLOAT", F32(data))

write_double(kind, data) == WriteTag(kind, 8, "FIFFT_DOUBLE", data)

write_string(kind, data) == WriteTag(kind, 1 * Len(data), "FIFFT_STRING", data)

write_float_matrix(kind, mat) ==
    Tag(kind, "FIFFT_MATRIX_FLOAT", 4 * (mat.nr * mat.nc) + 4 * 3, "SEQ",
        [mat |-> F32Mat(mat), dims |-> <<mat.nc, mat.nr, 2>>])

write_id(kind, id_) == Tag(kind, "FIFFT_ID_STRUCT", 5 * 4, "SEQ", id_)

start_block(kind) == write_int("FIFF_BLOCK_START", kind)

end_block(kind) == write_int("FIFF_BLOCK_END", kind)

\* start_file: the compulsory header tags of a freshly opened file
start_file == << write_id("FIFF_FILE_ID", "new_id"),
                 write_int("FIFF_DIR_POINTER", -1),
                 write_int("FIFF_FREE_LIST", -1) >>

\* end_file: the closing sentinel (the handle is closed by the caller action)
end_file_tag == Tag("FIFF_NOP", "FIFFT_VOID", 0, "NONE", <<>>)

write_coord_trans(trans) ==
    Tag("FIFF_COORD_TRANS", "FIFFT_COORD_TRANS_STRUCT", 4 * 2 * 12 + 4 * 2, "SEQ", trans)

\* an encoder that writes the name as it is given
ChNameWhole(name) == name

\* the name: at most 15 characters are kept
ChName(name) == IF Len(name) > 0 THEN SubSeq(name, 1, IF Len(name) < 15 THEN Len(name) ELSE 15)
                ELSE name

write_ch_info(ch) ==
    Tag("FIFF_CH_INFO", "FIFFT_CH_INFO_STRUCT", 4 * 13 + 4 * 7 + 16, "SEQ",
        [ch EXCEPT !.range = F32(@), !.cal = F32(@), !.ch_name = ChName(@)])

write_dig_point(dig) ==
    Tag("FIFF_DIG_POINT", "FIFFT_DIG_POINT_STRUCT", 5 * 4, "SEQ", dig)

\* the values of a matrix, row after row
RECURSIVE Cells(_)
Cells(rows) == IF rows = <<>> THEN 0 ELSE Len(Head(rows)) + Cells(Tail(rows))

\* write_ch_info, the name field: the characters of the name as written,
\* then 16 - len(ch_name) null bytes when the name is shorter than 16
NameFieldBytes(ch_name) ==
    Len(ch_name) + (IF Len(ch_name) < 16 THEN 16 - Len(ch_name) ELSE 0)

\* the bytes the fid.write calls of an encoder put after the 16-byte header:
\* four for an int32 or a float32, eight for a float64, one for a character
PayloadBytes(tag) ==
    CASE tag.type = "FIFFT_INT"    -> 4
      [] tag.type = "FIFFT_FLOAT"  -> 4
      [] tag.type = "FIFFT_DOUBLE" -> 8
      [] tag.type = "FIFFT_STRING" -> Len(tag.data)
      [] tag.type = "FIFFT_MATRIX_FLOAT" ->
            4 * Cells(tag.data.mat.rows) + 4 * Len(tag.data.dims)
      [] tag.type = "FIFFT_ID_STRUCT" -> 4 * 5
      [] tag.type = "FIFFT_COORD_TRANS_STRUCT" ->
            4 + 4 + 4 * 9 + 4 * 3 + 4 * 9 + 4 * 3
      [] tag.type = "FIFFT_CH_INFO_STRUCT" ->
            4 + 4 + 4 + 4 + 4 + 4 + 4 * Len(tag.data.loc) + 4 + 4
            + NameFieldBytes(tag.data.ch_name)
      [] tag.type = "FIFFT_DIG_POINT_STRUCT" ->
            4 + 4 + 4 * Len(SubSeq(tag.data.r, 1, 3))
      [] tag.type = "FIFFT_VOID" -> 0

\* ------------------------------------------------------ the directory tree
Node(block, dir, children) == [block |-> block, dir |-> dir, children |-> children]

\* make_dir_tree: the tags of a block go to its directory as (kind, pos), a
\* nested block becomes a child.  Returns the node and the next position.
RECURSIVE ParseBlock(_, _, _)
ParseBlock(s, i, node) ==
    IF i > Len(s) THEN [node |-> node, next |-> i]
    ELSE IF s[i].kind = "FIFF_BLOCK_START"
         THEN LET sub == ParseBlock(s, i + 1, Node(s[i].data, <<>>, <<>>))
              IN  ParseBlock(s, sub.next,
                             [node EXCEPT !.children = Append(@, sub.node)])
    ELSE IF s[i].kind = "FIFF_BLOCK_END"
         THEN [node |-> node, next |-> i + 1]
    ELSE ParseBlock(s, i + 1,
                    [node EXCEPT !.dir = Append(@, [kind |-> s[i].kind, pos |-> i])])

\* fiff_open: the tree of a file
fiff_open(s) == ParseBlock(s, 1, Node("ROOT", <<>>, <<>>)).node

\* dir_tree_find: every block of the kind, the node itself included, in file order
RECURSIVE dir_tree_find(_, _)
RECURSIVE FindInAll(_, _)
dir_tree_find(node, kind) ==
    (IF node.block = kind THEN <<node>> ELSE <<>>) \o FindInAll(node.children, kind)
FindInAll(nodes, kind) ==
    IF nodes = <<>> THEN <<>>
    ELSE dir_tree_find(Head(nodes), kind) \o FindInAll(Tail(nodes), kind)

\* ---------------------------------------------------------- source files
\* A source file is built from parameters p:
\*   processed        a processed-data block encloses the evoked blocks
\*   blocks           per evoked block [nasp, nsmsh]: its aspect blocks
\*   first, last      optional first/last sample tags of an evoked block
\*   lnchan, nchs     local channel count tag (0: none) and local ch-info tags
\*   lsfreq           optional local sample-rate tag
\*   kind, opt        optional aspect-kind tag; nave and comment tags present
\*   nepoch, er, ec   epoch tags of an aspect and the shape of each
\*   nchan            channels of the measurement info
\*   hpi, iso, trans  HPI-result block, isotrak block, coordinate transforms
Str(n) == [i \in 1..n |-> "c"]

ChRec(scanno, cal, name) ==
    [scanno |-> scanno, logno |-> scanno, kind |-> 1, range |-> Q(1), cal |-> Q(cal),
     coil_type |-> 0, loc |-> [i \in 1..12 |-> 0], unit |-> 107, unit_mul |-> 0,
     ch_name |-> name]

\* the channels of the measurement info: scan numbers from 1, as acquired
GlobalCh(k) == ChRec(k, k + 1, Str(k))
\* the channels an evoked block declares locally
LocalCh(k) == ChRec(k, k + 2, Str(k + 1))

ChInfoTag(ch) ==
    Tag("FIFF_CH_INFO", "FIFFT_CH_INFO_STRUCT", 96, "SEQ", ch)

\* the values of epoch e: float32 values, distinct per epoch, row and column
RawVal(e, r, c) == F32(Q(e + 2 * (r - 1) + 9 * (c - 1)))
RawEpoch(e, nr, nc) ==
    Mat([r \in 1..nr |-> [c \in 1..nc |-> RawVal(e, r, c)]], nr, nc)

EpochTag(m) ==
    Tag("FIFF_EPOCH", "FIFFT_MATRIX_FLOAT", 4 * (m.nr * m.nc) + 12, "SEQ",
        [mat |-> m, dims |-> <<m.nc, m.nr, 2>>])

OptTag(o, kind, type) == IF IsSome(o) THEN <<Tag(kind, type, 4, "SEQ", Get(o))>> ELSE <<>>

AspectBlock(p, blockkind) ==
    <<start_block(blockkind)>>
    \o OptTag(p.kind, "FIFF_ASPECT_KIND", "FIFFT_INT")
    \o (IF p.opt THEN <<write_int("FIFF_NAVE", 3)>> ELSE <<>>)
    \o [e \in 1..p.nepoch |-> EpochTag(RawEpoch(e, p.er, p.ec))]
    \o <<end_block(blockkind)>>

EvokedBlock(p, b) ==
    <<start_block("FIFFB_EVOKED")>>
    \o (IF p.opt THEN <<write_string("FIFF_COMMENT", Str(2))>> ELSE <<>>)
    \o OptTag(p.first, "FIFF_FIRST_SAMPLE", "FIFFT_INT")
    \o OptTag(p.last, "FIFF_LAST_SAMPLE", "FIFFT_INT")
    \o (IF p.lnchan > 0 THEN <<write_int("FIFF_NCHAN", p.lnchan)>> ELSE <<>>)
    \o (IF IsSome(p.lsfreq) THEN <<write_float("FIFF_SFREQ", Q(Get(p.lsfreq)))>> ELSE <<>>)
    \o [k \in 1..p.nchs |-> ChInfoTag(LocalCh(k))]
    \o Concat([a \in 1..b.nasp |-> AspectBlock(p, "FIFFB_ASPECT")])
    \o Concat([a \in 1..b.nsmsh |-> AspectBlock(p, "FIFFB_SMSH_ASPECT")])
    \o <<end_block("FIFFB_EVOKED")>>

DevHeadT == [from_ |-> 1, to |-> 4, trans |-> "dev_head"]
CtfHeadT == [from_ |-> 5, to |-> 4, trans |-> "ctf_head"]
DigPoint(i) == [kind |-> 1, ident |-> i, r |-> <<0, 0, 0>>]

MeasInfoBlock(p) ==
    <<start_block("FIFFB_MEAS_INFO")>>
    \o (IF p.hpi THEN <<start_block("FIFFB_HPI_RESULT"),
                        write_coord_trans(DevHeadT),
                        end_block("FIFFB_HPI_RESULT")>> ELSE <<>>)
    \o (IF p.iso THEN <<start_block("FIFFB_ISOTRAK"),
                        write_dig_point(DigPoint(1)),
                        end_block("FIFFB_ISOTRAK")>> ELSE <<>>)
    \o <<write_float("FIFF_SFREQ", Q(2)), write_int("FIFF_NCHAN", p.nchan)>>
    \o (IF p.trans THEN <<write_coord_trans(DevHeadT), write_coord_trans(CtfHeadT)>>
        ELSE <<>>)
    \o [k \in 1..p.nchan |-> ChInfoTag(GlobalCh(k))]
    \o <<end_block("FIFFB_MEAS_INFO")>>

BuildFile(p) ==
    start_file
    \o <<start_block("FIFFB_MEAS"), write_id("FIFF_BLOCK_ID", "src_id")>>
    \o MeasInfoBlock(p)
    \o (IF p.processed THEN <<start_block("FIFFB_PROCESSED_DATA")>> ELSE <<>>)
    \o Concat([k \in 1..Len(p.blocks) |-> EvokedBlock(p, p.blocks[k])])
    \o (IF p.processed THEN <<end_block("FIFFB_PROCESSED_DATA")>> ELSE <<>>)
    \o <<end_block("FIFFB_MEAS"), end_file_tag>>

\* ------------------------------------------------- collaborators of the read
\* read_tag: the tag at a directory position, a matrix payload decoded
read_tag(s, pos) ==
    [kind |-> s[pos].kind,
     data |-> IF s[pos].type = "FIFFT_MATRIX_FLOAT" THEN s[pos].data.mat
              ELSE s[pos].data]

\* the directory entries of one kind, in directory order
OfKind(dir, kind) == SelectSeq(dir, LAMBDA d : d.kind = kind)

\* the payloads of the tags of one kind, in directory order
DataOfKind(s, dir, kind) ==
    LET es == OfKind(dir, kind) IN [i \in 1..Len(es) |-> read_tag(s, es[i].pos).data]

\* a scalar assigned by each tag of the kind in turn: the last one stays
LastOfKind(s, dir, kind, default) ==
    LET ds == DataOfKind(s, dir, kind)
    IN  IF ds = <<>> THEN default ELSE ds[Len(ds)]

OptOfKind(s, dir, kind) ==
    LET ds == DataOfKind(s, dir, kind)
    IN  IF ds = <<>> THEN None ELSE Some(ds[Len(ds)])

TransFrom(ts, from) ==
    LET m == SelectSeq(ts, LAMBDA t : t.from_ = from)
    IN  IF m = <<>> THEN None ELSE Some(m[1])

\* read_meas_info: the measurement info of a file
read_meas_info(s, tree) ==
    LET meas == dir_tree_find(tree, "FIFFB_MEAS")[1]
        mi   == dir_tree_find(meas, "FIFFB_MEAS_INFO")[1]
        hpi  == dir_tree_find(mi, "FIFFB_HPI_RESULT")
        iso  == dir_tree_find(mi, "FIFFB_ISOTRAK")
        ts   == DataOfKind(s, mi.dir, "FIFF_COORD_TRANS")
               \o (IF hpi = <<>> THEN <<>>
                   ELSE DataOfKind(s, hpi[1].dir, "FIFF_COORD_TRANS"))
    IN  [info |->
           [filename   |-> None,
            meas_id    |-> OptOfKind(s, meas.dir, "FIFF_BLOCK_ID"),
            sfreq      |-> LastOfKind(s, mi.dir, "FIFF_SFREQ", Q(0)),
            highpass   |-> LastOfKind(s, mi.dir, "FIFF_HIGHPASS", Q(0)),
            lowpass    |-> LastOfKind(s, mi.dir, "FIFF_LOWPASS", Q(0)),
            nchan      |-> LastOfKind(s, mi.dir, "FIFF_NCHAN", 0),
            meas_date  |-> OptOfKind(s, mi.dir, "FIFF_MEAS_DATE"),
            dev_head_t |-> TransFrom(ts, 1),
            ctf_head_t |-> TransFrom(ts, 5),
            chs        |-> DataOfKind(s, mi.dir, "FIFF_CH_INFO"),
            dig        |-> IF iso = <<>> THEN None
                           ELSE Some(DataOfKind(s, iso[1].dir, "FIFF_DIG_POINT")),
            bads       |-> <<>>],
         meas |-> meas]

\* ------------------------------------------------------------ numpy helpers
\* np.zeros((1, n))
Zeros(n) == Mat(<<[c \in 1..n |-> Q(0)]>>, 1, n)

\* np.r_[a, b] of two 2-D arrays stacks rows; the column counts must agree
CanStack(a, b) == a.nc = b.nc
Stack(a, b) == Mat(a.rows \o b.rows, a.nr + b.nr, a.nc)

\* np.dot(np.diag(d), m): defined when m has Len(d) rows; row k scaled by d[k]
CanDot(d, m) == Len(d) = m.nr
DiagDot(d, m) ==
    Mat([r \in 1..m.nr |-> [c \in 1..m.nc |-> QMul(d[r], m.rows[r][c])]], m.nr, m.nc)

\* ------------------------------------------------------------ Evoked.__init__
\* The locals of one call.  fid is "unopened", "open" or "closed"; pc is the
\* next step, or "returned" / "raised" once the call has ended.
NewCall(fname, setno, baseline) ==
    [pc |-> "open", fname |-> fname, setno |-> setno, baseline |-> baseline,
     err |-> "", fid |-> "unopened", self |-> None,
     info |-> None, evoked_node |-> <<>>, sets |-> <<>>, naspect |-> 0,
     is_smsh |-> None, my_evoked |-> None, my_aspect |-> None,
     comment |-> None, first |-> None, last |-> None,
     nave |-> 1, aspect_kind |-> None, all_data |-> None, times |-> <<>>]

Raise(r, e) == [r EXCEPT !.pc = "raised", !.err = e]

\* fid.close()
Close(r) == [r EXCEPT !.fid = "closed"]

\* fid.close(fid): close() takes no argument, the call itself raises a
\* TypeError and the handle stays as it was
CloseWithArg(r) == Raise(r, "TypeError")

\* lines 62-84: open the file, read the measurement info, find the blocks
ReadOpen(r, s) ==
    IF r.setno < 0 THEN Raise(r, "SelectorNegative")
    ELSE LET tree == fiff_open(s)
             mi   == read_meas_info(s, tree)
             r1   == [r EXCEPT !.fid = "open",
                               !.info = Some([mi.info EXCEPT !.filename = Some(r.fname)])]
             processed   == dir_tree_find(mi.meas, "FIFFB_PROCESSED_DATA")
             evoked_node == dir_tree_find(mi.meas, "FIFFB_EVOKED")
         IN  IF Len(processed) = 0 THEN Raise(Close(r1), "NoProcessed")
             ELSE IF Len(evoked_node) = 0 THEN CloseWithArg(r1)
             ELSE [r1 EXCEPT !.evoked_node = evoked_node, !.pc = "identify"]

\* lines 96-101: the ordinary aspects of one evoked block
CountAspects(acc, n) ==
    IF n = 0 THEN acc
    ELSE IF acc.is_smsh = None
         THEN [acc EXCEPT !.is_smsh = Some(Zeros(n)), !.naspect = @ + n]
    ELSE IF ~CanStack(Get(acc.is_smsh), Zeros(n))
         THEN [acc EXCEPT !.err = "NumpyValueError"]
    ELSE [acc EXCEPT !.is_smsh = Some(Stack(Get(@), Zeros(n))), !.naspect = @ + n]

\* lines 103-109: the signal-minus-shield aspects of one evoked block.  The
\* count of the set becomes a list and np.ones(1, <that list>) takes it as a
\* dtype: the call raises a TypeError whenever there is such an aspect.
CountSmsh(acc, ns) ==
    IF ns = 0 THEN acc ELSE [acc EXCEPT !.err = "TypeError"]

\* lines 90-109: one turn of the loop over the evoked blocks
IdentifyOne(acc, node) ==
    LET aspects_k == dir_tree_find(node, "FIFFB_ASPECT")
        saspects  == dir_tree_find(node, "FIFFB_SMSH_ASPECT")
        set_k     == [aspects |-> aspects_k, naspect |-> Len(aspects_k)]
        a1 == CountAspects([acc EXCEPT !.sets = Append(@, set_k)], Len(aspects_k))
    IN  IF a1.err # "" THEN a1 ELSE CountSmsh(a1, Len(saspects))

RECURSIVE IdentifyFrom(_, _, _)
IdentifyFrom(acc, nodes, k) ==
    IF acc.err # "" \/ k > Len(nodes) THEN acc
    ELSE IdentifyFrom(IdentifyOne(acc, nodes[k]), nodes, k + 1)

\* lines 86-109: identify the aspects
ReadIdentify(r) ==
    LET acc == IdentifyFrom([sets |-> <<>>, naspect |-> 0, is_smsh |-> None, err |-> ""],
                            r.evoked_node, 1)
    IN  IF acc.err # "" THEN Raise(r, acc.err)
        ELSE [r EXCEPT !.sets = acc.sets, !.naspect = acc.naspect,
                       !.is_smsh = acc.is_smsh, !.pc = "select"]

\* lines 119-130: the (k, a) pairs in the order the nested loops visit them
Visited(sets) ==
    Concat([k \in 1..Len(sets) |-> [a \in 1..sets[k].naspect |-> <<k, a>>]])

\* line 114: the range check
InRange(setno, naspect) == ~(setno >= naspect \/ setno < 0)

\* lines 114-134: the range check, then the search of the data set
ReadSelect(r) ==
    IF ~InRange(r.setno, r.naspect) THEN Raise(Close(r), "SelectorRange")
    ELSE LET v == Visited(r.sets)
         IN  IF r.setno + 1 <= Len(v)
             THEN LET k == v[r.setno + 1][1]
                      a == v[r.setno + 1][2]
                  IN  [r EXCEPT !.my_evoked = Some(r.evoked_node[k]),
                                !.my_aspect = Some(r.sets[k].aspects[a]),
                                !.pc = "scan_evoked"]
             ELSE CloseWithArg(r)

NoComment == <<"N", "o", " ", "c", "o", "m", "m", "e", "n", "t">>

\* lines 169-184: the local channel information replaces that of the info
\* when the block declares nchan > 0; only then is a local sfreq > 0 applied
LocalOverride(info, nchan, sfreq, chs) ==
    IF nchan > 0
    THEN [info EXCEPT !.chs = chs, !.nchan = nchan,
                      !.sfreq = IF QLess(Q(0), sfreq) THEN sfreq ELSE @]
    ELSE info

\* a reader that does not compare the channel records with the local nchan
ChInfoCountUnchecked(chs, nchan) == TRUE

\* line 175
ChInfoCountOK(chs, nchan) == ~(Len(chs) # nchan)

\* lines 136-184: the tags of the evoked block
ReadScanEvoked(r, s) ==
    LET dir     == Get(r.my_evoked).dir
        comment == OptOfKind(s, dir, "FIFF_COMMENT")
        nchan   == LastOfKind(s, dir, "FIFF_NCHAN", 0)
        sfreq   == LastOfKind(s, dir, "FIFF_SFREQ", Q(-1))
        chs     == DataOfKind(s, dir, "FIFF_CH_INFO")
        r1 == [r EXCEPT !.comment = IF comment = None THEN Some(NoComment) ELSE comment,
                        !.first = OptOfKind(s, dir, "FIFF_FIRST_SAMPLE"),
                        !.last = OptOfKind(s, dir, "FIFF_LAST_SAMPLE")]
    IN  IF nchan > 0 /\ ~ChInfoCountOK(chs, nchan)
        THEN Raise(Close(r1), "ChInfoCount")
        ELSE [r1 EXCEPT !.info = Some(LocalOverride(Get(r.info), nchan, sfreq, chs)),
                        !.pc = "assemble"]

\* line 215
EpochCountOK(nepoch, nchan) == ~(nepoch # 1 /\ nepoch # nchan)

\* lines 229-231: the old style epochs, each transposed, stacked in tag order.
\* Returns None when np.r_ refuses the shapes.  (epoch[0] of an empty list is
\* an IndexError, which the caller raises.)
RECURSIVE StackEpochs(_, _, _)
StackEpochs(all_data, epoch, k) ==
    IF k > Len(epoch) THEN Some(all_data)
    ELSE IF ~CanStack(all_data, Transpose(epoch[k])) THEN None
    ELSE StackEpochs(Stack(all_data, Transpose(epoch[k])), epoch, k + 1)

\* a reader that stacks the old style epochs as they are stored
AssembleUntransposed(epoch, nchan) ==
    IF Len(epoch) = 1
    THEN IF epoch[1].nc = 1 /\ nchan = 1 THEN Some(Transpose(epoch[1]))
         ELSE Some(epoch[1])
    ELSE IF \E k \in 2..Len(epoch) : epoch[k].nc # epoch[1].nc THEN None
    ELSE Some(Mat(Concat([k \in 1..Len(epoch) |-> epoch[k].rows]),
                  QSum([k \in 1..Len(epoch) |-> Q(epoch[k].nr)]).n,
                  epoch[1].nc))

\* lines 220-231: the data matrix of the aspect
AssembleEpochs(epoch, nchan) ==
    IF Len(epoch) = 1
    THEN IF epoch[1].nc = 1 /\ nchan = 1 THEN Some(Transpose(epoch[1]))
         ELSE Some(epoch[1])
    ELSE StackEpochs(Transpose(epoch[1]), epoch, 2)

\* a reader that does not compare the columns with last - first + 1
SampleCountUnchecked(all_data, nsamp) == TRUE

\* line 233
SampleCountOK(all_data, nsamp) == ~(all_data.nc # nsamp)

\* lines 186-236: the tags of the aspect block, the data put together
ReadAssemble(r, s) ==
    IF r.first = None \/ r.last = None THEN Raise(r, "UnboundLocalError")
    ELSE
    LET nsamp   == Get(r.last) - Get(r.first) + 1
        info    == Get(r.info)
        dir     == Get(r.my_aspect).dir
        comment == OptOfKind(s, dir, "FIFF_COMMENT")
        kind    == OptOfKind(s, dir, "FIFF_ASPECT_KIND")
        nave    == LastOfKind(s, dir, "FIFF_NAVE", 1)
        epoch   == DataOfKind(s, dir, "FIFF_EPOCH")
        r1 == [r EXCEPT !.comment = IF comment = None THEN @ ELSE comment,
                        !.aspect_kind = kind, !.nave = nave]
    IN  IF kind = None THEN Raise(r1, "UnboundLocalError")
        ELSE IF ~EpochCountOK(Len(epoch), info.nchan)
             THEN Raise(Close(r1), "EpochCount")
        ELSE IF Len(epoch) = 0 THEN Raise(r1, "IndexError")
        ELSE LET all_data == AssembleEpochs(epoch, info.nchan)
             IN  IF all_data = None THEN Raise(r1, "NumpyValueError")
                 ELSE IF ~SampleCountOK(Get(all_data), nsamp)
                      THEN Raise(Close(r1), "SampleCount")
                 ELSE [r1 EXCEPT !.all_data = all_data, !.pc = "finish"]

\* line 242: np.arange(first, last + 1) / sfreq
Times(first, last, sfreq) ==
    [i \in 1..(IF last - first + 1 > 0 THEN last - first + 1 ELSE 0) |->
        QDiv(Q(first + i - 1), sfreq)]

\* line 239 (an IndexError when the info holds fewer channels than nchan)
Cals(info) == [k \in 1..info.nchan |-> info.chs[k].cal]

\* a reader that takes the index of the last instant for imax, not one past it
BaselineWindowShort(times, baseline) ==
    LET bmin == baseline[1]
        bmax == baseline[2]
        ge == {i \in 1..Len(times) : QLeq(Get(bmin), times[i])}
        le == {i \in 1..Len(times) : QLeq(times[i], Get(bmax))}
    IN  IF (bmin # None /\ ge = {}) \/ (bmax # None /\ le = {}) THEN None
        ELSE Some([imin |-> IF bmin = None THEN 0
                            ELSE (CHOOSE i \in ge : \A j \in ge : i <= j) - 1,
                   imax |-> IF bmax = None THEN Len(times)
                            ELSE (CHOOSE i \in le : \A j \in le : j <= i) - 1])

\* lines 249-256: the baseline window imin:imax (0-based, imax excluded);
\* None when np.where finds no instant, and [0][0] or [0][-1] fails
BaselineWindow(times, baseline) ==
    LET bmin == baseline[1]
        bmax == baseline[2]
        ge == {i \in 1..Len(times) : QLeq(Get(bmin), times[i])}
        le == {i \in 1..Len(times) : QLeq(times[i], Get(bmax))}
    IN  IF (bmin # None /\ ge = {}) \/ (bmax # None /\ le = {}) THEN None
        ELSE Some([imin |-> IF bmin = None THEN 0
                            ELSE (CHOOSE i \in ge : \A j \in ge : i <= j) - 1,
                   imax |-> IF bmax = None THEN Len(times)
                            ELSE (CHOOSE i \in le : \A j \in le : j <= i)])

\* line 257: the mean of row[imin:imax] taken off the whole row; the mean of
\* an empty slice is NaN
Rescale(m, w) ==
    Mat([r \in 1..m.nr |->
           LET mean == IF w.imax <= w.imin THEN NaN
                       ELSE QDiv(QSum(SubSeq(m.rows[r], w.imin + 1, w.imax)),
                                 Q(w.imax - w.imin))
           IN  [c \in 1..m.nc |-> QSub(m.rows[r][c], mean)]], m.nr, m.nc)

\* lines 262-269: the fields of the object
Dataset(info, nave, aspect_kind, first, last, comment, times, data) ==
    [info |-> info, nave |-> nave, aspect_kind |-> aspect_kind, first |-> first,
     last |-> last, comment |-> comment, times |-> times, data |-> data]

\* lines 238-271: calibration, time axis, baseline, the object, the close
ReadFinish(r) ==
    LET info  == Get(r.info)
        cals  == Cals(info)
        times == Times(Get(r.first), Get(r.last), info.sfreq)
    IN  IF Len(info.chs) < info.nchan THEN Raise(r, "IndexError")
        ELSE IF ~CanDot(cals, Get(r.all_data)) THEN Raise(r, "NumpyValueError")
        ELSE
        LET cal_data == DiagDot(cals, Get(r.all_data))
            w == IF r.baseline = None THEN None
                 ELSE BaselineWindow(times, Get(r.baseline))
        IN  IF r.baseline # None /\ w = None THEN Raise(r, "IndexError")
            ELSE LET all_data == IF r.baseline = None THEN cal_data
                                 ELSE Rescale(cal_data, Get(w))
                 IN  [Close(r) EXCEPT
                        !.self = Some(Dataset(info, r.nave, Get(r.aspect_kind),
                                              Get(r.first), Get(r.last),
                                              Get(r.comment), times, all_data)),
                        !.all_data = Some(all_data), !.times = times,
                        !.pc = "returned"]

\* ------------------------------------------------------------- Evoked.save
\* The locals of one call: the handle fid of the output file, the handle fid2
\* of the source file, the tags written so far (out) and the dataset (self),
\* which the call holds by reference.
NewSave(d, exists, copy_fails) ==
    [pc |-> "start", err |-> "", fid |-> "unopened", fid2 |-> "unopened",
     out |-> <<>>, self |-> d, before |-> d,
     have_hpi_result |-> FALSE, have_isotrak |-> FALSE,
     exists |-> exists, copy_fails |-> copy_fails, variant |-> ""]

Emit(w, tags) == [w EXCEPT !.out = @ \o tags]

\* lines 282-290: the file is created, the measurement block is opened
SaveStart(w) ==
    LET info == w.self.info
    IN  [Emit([w EXCEPT !.fid = "open", !.out = <<>>],
              start_file
              \o <<start_block("FIFFB_MEAS"), write_id("FIFF_BLOCK_ID", "new_id")>>
              \o (IF info.meas_id # None
                  THEN <<write_id("FIFF_PARENT_BLOCK_ID", Get(info.meas_id))>>
                  ELSE <<>>)
              \o <<start_block("FIFFB_MEAS_INFO")>>)
         EXCEPT !.pc = "copy"]

\* copy_tree: a block of the source written again, its tags then its children
RECURSIVE CopyNode(_, _)
RECURSIVE CopyNodes(_, _)
CopyNode(s, node) ==
    <<start_block(node.block)>>
    \o [i \in 1..Len(node.dir) |-> s[node.dir[i].pos]]
    \o CopyNodes(s, node.children)
    \o <<end_block(node.block)>>
CopyNodes(s, nodes) ==
    IF nodes = <<>> THEN <<>>
    ELSE CopyNode(s, Head(nodes)) \o CopyNodes(s, Tail(nodes))

\* line 293
CopiedBlocks == <<"FIFFB_SUBJECT", "FIFFB_HPI_MEAS", "FIFFB_HPI_RESULT",
                  "FIFFB_ISOTRAK", "FIFFB_PROCESSING_HISTORY">>

\* lines 304-307
HaveBlock(tree, block) == Len(dir_tree_find(tree, block)) > 0

\* lines 296-308: the blocks of the source file are copied.  s is the content
\* of the file self.info['filename'] names.
SaveCopy(w, s) ==
    LET info == w.self.info
    IN  IF info.filename = None THEN [w EXCEPT !.pc = "info"]
        ELSE IF ~w.exists THEN Raise(w, "IOError")
        ELSE IF w.copy_fails THEN Raise([w EXCEPT !.fid2 = "open"], "IOError")
        ELSE LET tree == fiff_open(s)
                 tags == Concat([b \in 1..Len(CopiedBlocks) |->
                            CopyNodes(s, dir_tree_find(tree, CopiedBlocks[b]))])
             IN  [Emit(w, tags) EXCEPT
                    !.have_hpi_result = HaveBlock(tree, "FIFFB_HPI_RESULT"),
                    !.have_isotrak = HaveBlock(tree, "FIFFB_ISOTRAK"),
                    !.fid2 = "closed", !.pc = "info"]

\* lines 311-316
GeneralTags(info) ==
    << write_float("FIFF_SFREQ", info.sfreq),
       write_float("FIFF_HIGHPASS", info.highpass),
       write_float("FIFF_LOWPASS", info.lowpass),
       write_int("FIFF_NCHAN", info.nchan) >>
    \o (IF info.meas_date # None
        THEN <<write_int("FIFF_MEAS_DATE", Get(info.meas_date))>> ELSE <<>>)

\* lines 319-324
CoordTransTags(info, have_hpi_result) ==
    IF ~have_hpi_result
    THEN (IF info.dev_head_t # None
          THEN <<write_coord_trans(Get(info.dev_head_t))>> ELSE <<>>)
         \o (IF info.ctf_head_t # None
             THEN <<write_coord_trans(Get(info.ctf_head_t))>> ELSE <<>>)
    ELSE <<>>

\* line 329: the scan number of channel k (0-based) is set on the dataset
Renumber(chs, n) ==
    [k \in 1..Len(chs) |-> IF k <= n THEN [chs[k] EXCEPT !.scanno = k - 1] ELSE chs[k]]

\* a writer that writes its digitizer block whatever it has copied
DigTagsUnguarded(info, have_isotrak) ==
    IF info.dig # None
    THEN <<start_block("FIFFB_ISOTRAK")>>
         \o [i \in 1..Len(Get(info.dig)) |-> write_dig_point(Get(info.dig)[i])]
         \o <<end_block("FIFFB_ISOTRAK")>>
    ELSE <<>>

\* lines 333-338
DigTags(info, have_isotrak) ==
    IF info.dig # None /\ ~have_isotrak
    THEN <<start_block("FIFFB_ISOTRAK")>>
         \o [i \in 1..Len(Get(info.dig)) |-> write_dig_point(Get(info.dig)[i])]
         \o <<end_block("FIFFB_ISOTRAK")>>
    ELSE <<>>

\* lines 347-350
BadsTags(info) ==
    IF Len(info.bads) > 0
    THEN <<start_block("FIFFB_MNE_BAD_CHANNELS"),
           write_string("FIFF_MNE_CH_NAME_LIST", Concat(info.bads)),
           end_block("FIFFB_MNE_BAD_CHANNELS")>>
    ELSE <<>>

\* lines 310-352: the measurement info.  The loop over range(nchan) renumbers
\* and writes the channels it finds and fails on the first one missing.
SaveInfo(w) ==
    LET info == w.self.info
        n    == IF info.nchan <= Len(info.chs) THEN info.nchan ELSE Len(info.chs)
        chs  == Renumber(info.chs, n)
        w1   == Emit([w EXCEPT !.self.info.chs = chs],
                     GeneralTags(info)
                     \o CoordTransTags(info, w.have_hpi_result)
                     \o [k \in 1..n |-> write_ch_info(chs[k])])
    IN  IF info.nchan > Len(info.chs) THEN Raise(w1, "IndexError")
        ELSE [Emit(w1, DigTags(info, w.have_isotrak) \o BadsTags(info)
                       \o <<end_block("FIFFB_MEAS_INFO")>>)
              EXCEPT !.pc = "evoked"]

\* a writer that scales by cal where it should divide
DecalByCal(info) == [k \in 1..info.nchan |-> info.chs[k].cal]

\* lines 377-379: the diagonal of decal, 1.0 / cal of every channel
Decal(info) == [k \in 1..info.nchan |-> QDiv(Q(1), info.chs[k].cal)]

\* line 382: np.dot(decal, evoked), row k scaled by decal[k, k]
DecalDot(d, m) ==
    Mat([r \in 1..m.nr |-> [c \in 1..m.nc |-> QMul(d[r], m.rows[r][c])]],
        m.nr, m.nc)

\* lines 354-384: the processed data, one evoked block with one aspect
SaveEvoked(w) ==
    LET d  == w.self
        w1 == Emit(w, <<start_block("FIFFB_PROCESSED_DATA"), start_block("FIFFB_EVOKED")>>
                      \o (IF Len(d.comment) > 0
                          THEN <<write_string("FIFF_COMMENT", d.comment)>> ELSE <<>>)
                      \o <<write_int("FIFF_FIRST_SAMPLE", d.first),
                           write_int("FIFF_LAST_SAMPLE", d.last),
                           start_block("FIFFB_ASPECT"),
                           write_int("FIFF_ASPECT_KIND", d.aspect_kind),
                           write_int("FIFF_NAVE", d.nave)>>)
    IN  IF Len(d.info.chs) < d.info.nchan THEN Raise(w1, "IndexError")
        ELSE IF ~CanDot(Decal(d.info), d.data) THEN Raise(w1, "NumpyValueError")
        ELSE [Emit(w1, <<write_float_matrix("FIFF_EPOCH", DecalDot(Decal(d.info), d.data)),
                         end_block("FIFFB_ASPECT"), end_block("FIFFB_EVOKED")>>)
              EXCEPT !.pc = "end"]

\* a writer that forgets to close the measurement block
SaveEndUnclosed(w) ==
    [Emit(w, <<end_block("FIFFB_PROCESSED_DATA"), end_file_tag>>)
     EXCEPT !.fid = "closed", !.pc = "returned"]

\* lines 386-390: the blocks are closed, end_file writes the sentinel and
\* closes the handle
SaveEnd(w) ==
    [Emit(w, <<end_block("FIFFB_PROCESSED_DATA"), end_block("FIFFB_MEAS"), end_file_tag>>)
     EXCEPT !.fid = "closed", !.pc = "returned"]

\* ------------------------------------------------------------------ inputs
BlockShapes == [nasp : 0..MaxAspects, nsmsh : 0..1]

Structures == UNION {[1..n -> BlockShapes] : n \in 0..MaxEvoked}

\* an averaged data file as the writer itself lays it out
Std == [processed |-> TRUE, blocks |-> <<[nasp |-> 1, nsmsh |-> 0]>>,
        first |-> Some(-1), last |-> Some(0), lnchan |-> 0, nchs |-> 0,
        lsfreq |-> None, kind |-> Some(100), opt |-> TRUE,
        nepoch |-> 1, er |-> MaxChan, ec |-> 2, nchan |-> MaxChan,
        hpi |-> FALSE, iso |-> FALSE, trans |-> FALSE]

\* files that differ in their blocks
SelectFiles ==
    {[Std EXCEPT !.processed = pr, !.blocks = b] : pr \in BOOLEAN, b \in Structures}

\* files that differ in the tags of their one evoked block and its aspect
ContentFiles ==
    {[Std EXCEPT !.first = fl[1], !.last = fl[2], !.kind = ko[1], !.opt = ko[2],
                 !.lnchan = lc[1], !.nchs = lc[2], !.lsfreq = sf,
                 !.nepoch = ne, !.er = sh[1], !.ec = sh[2], !.nchan = nc] :
        fl \in {<<None, Some(0)>>, <<Some(-1), None>>,
                <<Some(-1), Some(-1)>>, <<Some(-1), Some(0)>>},
        ko \in {<<Some(100), TRUE>>, <<Some(100), FALSE>>, <<None, TRUE>>},
        lc \in (0..MaxChan) \X (0..MaxChan),
        sf \in {None, Some(1)},
        ne \in 0..(MaxChan + 1),
        sh \in (1..MaxChan) \X (1..2),
        nc \in 1..MaxChan}

\* files that differ in the metadata the writer carries over
MetaFiles ==
    {[Std EXCEPT !.hpi = h, !.iso = i, !.trans = t] :
        h \in BOOLEAN, i \in BOOLEAN, t \in BOOLEAN}

SetNos == -1..(MaxEvoked * (MaxAspects + 1))

Baselines == {None, Some(<<None, None>>)}

\* files of two and of three samples, read with a baseline
BaselineFiles == {Std, [Std EXCEPT !.first = Some(-2), !.ec = 3]}

\* an end of the baseline interval: absent, or an instant in half seconds
BaselineEnds == {None} \cup {Some(QNorm(n, 2)) : n \in -3..1}

BaselinePairs == {Some(<<bmin, bmax>>) : bmin \in BaselineEnds, bmax \in BaselineEnds}

Inputs ==
    (SelectFiles \X SetNos \X {None})
    \cup (ContentFiles \X {0} \X Baselines)
    \cup (MetaFiles \X {0} \X {None})
    \cup (BaselineFiles \X {0} \X BaselinePairs)

\* what the caller may hand to write_evoked: the dataset as read, or one it
\* has changed since (the fields of the object are public)
Variants(d) ==
    { [name |-> "asread", d |-> d],
      [name |-> "nofile", d |-> [d EXCEPT !.info.filename = None]],
      [name |-> "rows",
       d |-> [d EXCEPT !.data = Mat(Tail(@.rows), @.nr - 1, @.nc)]],
      [name |-> "nchan", d |-> [d EXCEPT !.info.nchan = @ + 1]] }

\* ------------------------------------------------------------------- state
VARIABLES
    file,     \* the parameters of the source file
    phase,    \* "read", "write", "reread": the call in progress
    rd,       \* the locals of the read call in progress (or the last one)
    wr,       \* the locals of the write call
    ave       \* the dataset the first read returned, as it was returned

vars == <<file, phase, rd, wr, ave>>

\* the files on disk
Disk(fname) == IF fname = "src" THEN BuildFile(file) ELSE wr.out

NoSave == [pc |-> "idle", err |-> "", fid |-> "unopened", fid2 |-> "unopened",
           out |-> <<>>, self |-> None, before |-> None,
           have_hpi_result |-> FALSE, have_isotrak |-> FALSE,
           exists |-> TRUE, copy_fails |-> FALSE, variant |-> ""]

Init ==
    \E in \in Inputs :
        /\ file = in[1]
        /\ rd = NewCall("src", in[2], in[3])
        /\ phase = "read"
        /\ wr = NoSave
        /\ ave = None

\* ----------------------------------------------------------------- actions
Reading == phase \in {"read", "reread"}

DoReadOpen ==
    /\ Reading /\ rd.pc = "open"
    /\ rd' = ReadOpen(rd, Disk(rd.fname))
    /\ UNCHANGED <<file, phase, wr, ave>>

DoReadIdentify ==
    /\ Reading /\ rd.pc = "identify"
    /\ rd' = ReadIdentify(rd)
    /\ UNCHANGED <<file, phase, wr, ave>>

DoReadSelect ==
    /\ Reading /\ rd.pc = "select"
    /\ rd' = ReadSelect(rd)
    /\ UNCHANGED <<file, phase, wr, ave>>

DoReadScanEvoked ==
    /\ Reading /\ rd.pc = "scan_evoked"
    /\ rd' = ReadScanEvoked(rd, Disk(rd.fname))
    /\ UNCHANGED <<file, phase, wr, ave>>

DoReadAssemble ==
    /\ Reading /\ rd.pc = "assemble"
    /\ rd' = ReadAssemble(rd, Disk(rd.fname))
    /\ UNCHANGED <<file, phase, wr, ave>>

DoReadFinish ==
    /\ Reading /\ rd.pc = "finish"
    /\ rd' = ReadFinish(rd)
    /\ UNCHANGED <<file, phase, wr, ave>>

\* write_evoked('evoked.fif', ave): the source file may have gone since, or
\* may fail to be read while its blocks are copied
CallSave ==
    /\ phase = "read" /\ rd.pc = "returned"
    /\ \E v \in Variants(Get(rd.self)), src \in {"there", "gone", "unreadable"} :
          /\ src # "there" => v.name = "asread"
          /\ wr' = [NewSave(v.d, src # "gone", src = "unreadable")
                    EXCEPT !.variant = IF src = "there" THEN v.name ELSE src]
    /\ ave' = rd.self
    /\ phase' = "write"
    /\ UNCHANGED <<file, rd>>

DoSaveStart ==
    /\ phase = "write" /\ wr.pc = "start"
    /\ wr' = SaveStart(wr)
    /\ UNCHANGED <<file, phase, rd, ave>>

DoSaveCopy ==
    /\ phase = "write" /\ wr.pc = "copy"
    /\ wr' = SaveCopy(wr, BuildFile(file))
    /\ UNCHANGED <<file, phase, rd, ave>>

DoSaveInfo ==
    /\ phase = "write" /\ wr.pc = "info"
    /\ wr' = SaveInfo(wr)
    /\ UNCHANGED <<file, phase, rd, ave>>

DoSaveEvoked ==
    /\ phase = "write" /\ wr.pc = "evoked"
    /\ wr' = SaveEvoked(wr)
    /\ UNCHANGED <<file, phase, rd, ave>>

DoSaveEnd ==
    /\ phase = "write" /\ wr.pc = "end"
    /\ wr' = SaveEnd(wr)
    /\ UNCHANGED <<file, phase, rd, ave>>

\* ave2 = read_evoked('evoked.fif')
CallReread ==
    /\ phase = "write" /\ wr.pc = "returned"
    /\ rd' = NewCall("out", 0, None)
    /\ phase' = "reread"
    /\ UNCHANGED <<file, wr, ave>>

Next ==
    \/ DoReadOpen \/ DoReadIdentify \/ DoReadSelect
    \/ DoReadScanEvoked \/ DoReadAssemble \/ DoReadFinish
    \/ CallSave
    \/ DoSaveStart \/ DoSaveCopy \/ DoSaveInfo \/ DoSaveEvoked \/ DoSaveEnd
    \/ CallReread

Spec == Init /\ [][Next]_vars


\* ============================================================== properties
\* the first read of the source file has ended, one way or the other
FirstReadEnded == phase = "read" /\ rd.pc \in {"returned", "raised"}

\* the source file has a processed-data block with at least one evoked block,
\* and every aspect of it is laid out as the writer lays it out
WellFormedUnits ==
    /\ file.processed
    /\ Len(file.blocks) > 0
    /\ [file EXCEPT !.blocks = Std.blocks] = Std

\* ordinary and signal-minus-shield aspects of all the evoked blocks
RECURSIVE SumUnits(_)
SumUnits(blocks) ==
    IF blocks = <<>> THEN 0
    ELSE Head(blocks).nasp + Head(blocks).nsmsh + SumUnits(Tail(blocks))

total_count == SumUnits(file.blocks)

SelectionRangeErrors == {"SelectorNegative", "SelectorRange"}

\* C1: for a file whose evoked blocks together hold total_count units
\* (ordinary aspects and signal-minus-shield aspects), the read of unit i
\* succeeds for every 0 <= i < total_count and ends in a selection-range
\* error for every i < 0 and every i >= total_count, files with
\* signal-minus-shield aspects included.
C1_SelectionRange ==
    (FirstReadEnded /\ WellFormedUnits) =>
        IF 0 <= rd.setno /\ rd.setno < total_count
        THEN rd.pc = "returned"
        ELSE rd.pc = "raised" /\ rd.err \in SelectionRangeErrors

\* the units of an evoked block: its ordinary aspects in file order, then its
\* signal-minus-shield aspects in file order
UnitsOfBlock(ev) ==
    LET asp == dir_tree_find(ev, "FIFFB_ASPECT")
        sm  == dir_tree_find(ev, "FIFFB_SMSH_ASPECT")
    IN  [a \in 1..(Len(asp) + Len(sm)) |->
            <<ev, IF a <= Len(asp) THEN asp[a] ELSE sm[a - Len(asp)]>>]

\* the units of the source file, the evoked blocks in file order
Units ==
    LET evoked == dir_tree_find(fiff_open(BuildFile(file)), "FIFFB_EVOKED")
    IN  Concat([k \in 1..Len(evoked) |-> UnitsOfBlock(evoked[k])])

\* C2: the flat index enumerates the evoked blocks in file order and, within
\* a block, the ordinary aspects in file order and then the
\* signal-minus-shield aspects in file order; the read of index i returns the
\* i-th unit of that enumeration together with the evoked block that holds it.
C2_FlatIndexOrder ==
    (FirstReadEnded /\ WellFormedUnits
        /\ 0 <= rd.setno /\ rd.setno < total_count) =>
        /\ rd.pc = "returned"
        /\ <<Get(rd.my_evoked), Get(rd.my_aspect)>> = Units[rd.setno + 1]

\* C3: the handle of the file being read is closed on every exit path of the
\* read, the successful return and every error alike.
C3_ReadHandleClosed ==
    (Reading /\ rd.pc \in {"returned", "raised"}) => rd.fid # "open"

\* |a - b| <= 2^-F32Bits * |b|: a is b up to one rounding to float32
WithinFloat32(a, b) ==
    QLeq(QMul(Q(Pow2(F32Bits)), QAbs(QSub(a, b))), QAbs(b))

\* C4: a dataset D returned by the read, written and read back as D2, has
\* D2.nave, D2.aspect_kind, D2.first and D2.last equal to those of D, the
\* same time axis, and data of the same shape equal to those of D up to
\* float32 precision; the write and the second read both succeed.
C4_RoundTrip ==
    /\ (phase = "write" /\ wr.variant = "asread" /\ wr.pc \in {"returned", "raised"})
          => wr.pc = "returned"
    /\ (phase = "reread" /\ wr.variant = "asread" /\ rd.pc \in {"returned", "raised"})
          => /\ rd.pc = "returned"
             /\ LET D  == Get(ave)
                    D2 == Get(rd.self)
                IN  /\ D2.nave = D.nave
                    /\ D2.aspect_kind = D.aspect_kind
                    /\ D2.first = D.first
                    /\ D2.last = D.last
                    /\ D2.times = D.times
                    /\ D2.data.nr = D.data.nr
                    /\ D2.data.nc = D.data.nc
                    /\ \A r \in 1..D.data.nr : \A c \in 1..D.data.nc :
                          WithinFloat32(D2.data.rows[r][c], D.data.rows[r][c])

\* a round trip after which the data differ, within the tolerance
C4_Witness ==
    /\ phase = "reread" /\ wr.variant = "asread" /\ rd.pc = "returned"
    /\ Get(rd.self).data # Get(ave).data

\* the channel count in force for the one evoked block of the file
EffNchan == IF file.lnchan > 0 THEN file.lnchan ELSE file.nchan

\* the read of unit 0 of a file with one evoked block of one aspect
ReadsOneUnit ==
    /\ phase = "read" /\ rd.setno = 0
    /\ file.processed /\ file.blocks = Std.blocks

RequiredTags == file.first # None /\ file.last # None /\ file.kind # None

NSamp == Get(file.last) - Get(file.first) + 1

\* the aspect holds one epoch tag per channel, more than one channel
OldStyleEpochs ==
    /\ ReadsOneUnit /\ RequiredTags
    /\ file.lnchan > 0 => file.nchs = file.lnchan
    /\ EffNchan > 1
    /\ file.nepoch = EffNchan

StoredAsRows == file.er = 1 /\ file.ec = NSamp

StoredAsColumns == file.er = NSamp /\ file.ec = 1

\* the values of epoch tag k, as one row
EpochRow(k) ==
    LET m == RawEpoch(k, file.er, file.ec)
    IN  IF file.er = 1 THEN m.rows[1] ELSE [c \in 1..file.er |-> m.rows[c][1]]

\* the matrix handed on by the assembly is nchan x nsamp, row k is epoch k
AssembledInOrder ==
    LET m == Get(rd.all_data)
    IN  /\ m.nr = EffNchan
        /\ m.nc = NSamp
        /\ \A k \in 1..EffNchan : m.rows[k] = EpochRow(k)

AssemblyErrors == {"UnboundLocalError", "EpochCount", "NumpyValueError", "SampleCount"}

AssemblySucceeds ==
    /\ rd.pc = "raised" => rd.err \notin AssemblyErrors
    /\ rd.pc = "finish" => AssembledInOrder

\* C5 as the specification words it: nchan > 1 epoch tags of nsamp values
\* each, stored as 1 x nsamp or as nsamp x 1, are put together into an
\* nchan x nsamp matrix whose row k is epoch k, whichever the orientation.
C5_BothOrientations ==
    (OldStyleEpochs /\ (StoredAsRows \/ StoredAsColumns)) => AssemblySucceeds

\* C5: nchan > 1 epoch tags of nsamp values each, every one stored as an
\* nsamp x 1 column, are put together into an nchan x nsamp matrix whose row
\* k is epoch k, in tag order; stored as 1 x nsamp rows with nsamp > 1 they
\* are refused with the sample-count error.
C5_ColumnsOnly ==
    OldStyleEpochs =>
        /\ StoredAsColumns => AssemblySucceeds
        /\ (StoredAsRows /\ NSamp > 1) =>
              /\ rd.pc \notin {"finish", "returned"}
              /\ rd.pc = "raised" => rd.err = "SampleCount"

\* columns of more than one sample, put together
C5_Witness ==
    OldStyleEpochs /\ StoredAsColumns /\ NSamp > 1 /\ rd.pc = "finish"

ChInfoViolation == file.lnchan > 0 /\ file.nchs # file.lnchan

EpochViolation == file.nepoch # 1 /\ file.nepoch # EffNchan

\* the columns of the matrix the epochs of the file are put together to
AssembledColumns ==
    IF file.nepoch = 1
    THEN IF file.ec = 1 /\ EffNchan = 1 THEN file.er ELSE file.ec
    ELSE file.er

SampleViolation == AssembledColumns # NSamp

\* the read comes to one of the three comparisons and the file fails it
MeetsViolation ==
    /\ ReadsOneUnit
    /\ \/ ChInfoViolation
       \/ RequiredTags /\ (EpochViolation \/ SampleViolation)

DataConsistencyErrors == {"ChInfoCount", "EpochCount", "SampleCount"}

\* C6: a read that meets a structural violation (epoch tags neither 1 nor
\* nchan in number, columns other than last - first + 1, local channel
\* records other than the local nchan in number) ends in a data-consistency
\* error, and no field of the dataset has been assigned; no field is
\* assigned before the read returns.
C6_NoPartialDataset ==
    /\ (rd.pc \in {"returned", "raised"} /\ MeetsViolation)
          => rd.pc = "raised" /\ rd.err \in DataConsistencyErrors /\ rd.self = None
    /\ rd.pc # "returned" => rd.self = None

\* a read refused for its sample count
C6_Witness ==
    MeetsViolation /\ rd.pc = "raised" /\ rd.err = "SampleCount" /\ rd.self = None

\* C7: in every dataset the read returns, in either layout of the epochs,
\* len(times) = last - first + 1 = the columns of data, and the rows of data
\* are info.nchan, the local override counted in.
C7_ShapeInvariants ==
    rd.pc = "returned" =>
        LET D == Get(rd.self)
            n == D.last - D.first + 1
        IN  /\ Len(D.times) = n
            /\ D.data.nc = n
            /\ D.data.nr = D.info.nchan
            /\ Len(D.data.rows) = D.data.nr
            /\ \A r \in 1..D.data.nr : Len(D.data.rows[r]) = D.data.nc

\* a dataset of one epoch per channel, under a local channel count
C7_Witness ==
    /\ phase = "read" /\ rd.pc = "returned"
    /\ file.nepoch > 1 /\ file.lnchan > 0
    /\ Get(rd.self).last > Get(rd.self).first

SaveEnded == wr.pc \in {"returned", "raised"}

\* C8: the write leaves the dataset as it found it: once the write has
\* returned or failed every field of the dataset, the scan numbers of the
\* channels included, is what it was before the call.
C8_DatasetUnchanged == SaveEnded => wr.self = wr.before

\* data rows = info.nchan, data columns = last - first + 1 = len(times)
ShapeOK(d) ==
    /\ d.data.nr = d.info.nchan
    /\ d.data.nc = d.last - d.first + 1
    /\ Len(d.times) = d.data.nc

\* C9: the write checks the shape of the dataset before it emits any byte: a
\* dataset whose data rows are not info.nchan, or whose columns are not
\* last - first + 1 = len(times), fails with nothing written.
C9_ValidatesBeforeWriting ==
    (SaveEnded /\ ~ShapeOK(wr.before)) => wr.pc = "raised" /\ wr.out = <<>>

\* C10: the write closes every handle it opened, the output and the source
\* it copies from, on every exit path, the failures included.
C10_WriteHandlesClosed ==
    SaveEnded => wr.fid # "open" /\ wr.fid2 # "open"

\* the measurement-info blocks of what the writer has emitted so far
OutInfo == dir_tree_find(fiff_open(wr.out), "FIFFB_MEAS_INFO")

\* the coordinate-transform tags the writer put into the measurement-info
\* block itself (not inside a block below it) that start from frame `from`
OwnTrans(from) ==
    Cardinality({i \in 1..Len(OutInfo[1].dir) :
        /\ OutInfo[1].dir[i].kind = "FIFF_COORD_TRANS"
        /\ wr.out[OutInfo[1].dir[i].pos].data.from_ = from})

\* the blocks of a kind right below the measurement-info block of the output
OutBlocks(kind) ==
    Cardinality({i \in 1..Len(OutInfo[1].children) :
        OutInfo[1].children[i].block = kind})

\* the dataset names its source file and that file holds the block
SourceSet == wr.before.info.filename # None

HpiCopied == SourceSet /\ file.hpi

IsoCopied == SourceSet /\ file.iso

Count(b) == IF b THEN 1 ELSE 0

\* C11: the writer never emits carried-over metadata twice.  Inside the
\* measurement-info block the device->head and CTF->head transforms are
\* written exactly when the dataset holds them and no HPI-result block was
\* copied from the source; an isotrak block of the writer's own is written
\* exactly when the dataset holds digitizer points and no isotrak block was
\* copied, so the output never holds two; with no source file set nothing is
\* suppressed.  While the write is under way no such tag or block appears
\* that the finished file would not hold.
C11_NoDuplicateMetadata ==
    (wr.pc \notin {"idle", "start"} /\ OutInfo # <<>>) =>
        LET info  == wr.before.info
            ndev  == Count(~HpiCopied /\ info.dev_head_t # None)
            nctf  == Count(~HpiCopied /\ info.ctf_head_t # None)
            niso  == Count(IsoCopied \/ info.dig # None)
        IN  /\ OwnTrans(1) <= ndev
            /\ OwnTrans(5) <= nctf
            /\ OutBlocks("FIFFB_ISOTRAK") <= niso
            /\ OutBlocks("FIFFB_HPI_RESULT") <= Count(HpiCopied)
            /\ wr.pc = "returned" =>
                  /\ OwnTrans(1) = ndev
                  /\ OwnTrans(5) = nctf
                  /\ OutBlocks("FIFFB_ISOTRAK") = niso
                  /\ OutBlocks("FIFFB_HPI_RESULT") = Count(HpiCopied)

\* a finished write that copied both blocks from the source and so held back
\* the transform and the digitizer points the dataset holds
C11_Witness ==
    /\ wr.pc = "returned" /\ HpiCopied /\ IsoCopied
    /\ wr.before.info.dev_head_t # None /\ wr.before.info.dig # None
    /\ OwnTrans(1) = 0 /\ OutBlocks("FIFFB_ISOTRAK") = 1

\* a finished write with no source file set: everything the dataset holds is
\* written by the writer itself
C11_NoSource ==
    /\ wr.pc = "returned" /\ ~SourceSet
    /\ wr.before.info.dev_head_t # None /\ wr.before.info.dig # None
    /\ OwnTrans(1) = 1 /\ OutBlocks("FIFFB_ISOTRAK") = 1

\* the mean of row[lo..hi] (positions from 1, both ends in)
MeanOf(row, lo, hi) == QDiv(QSum(SubSeq(row, lo, hi)), Q(hi - lo + 1))

\* imin: 0 when bmin is absent, else the index of the first time >= bmin
IMin(times, bmin) ==
    IF bmin = None THEN 0
    ELSE (CHOOSE i \in 1..Len(times) :
             /\ QLeq(Get(bmin), times[i])
             /\ \A j \in 1..(i - 1) : ~QLeq(Get(bmin), times[j])) - 1

\* imax: nsamp when bmax is absent, else one past the index of the last
\* time <= bmax
IMax(times, bmax) ==
    IF bmax = None THEN Len(times)
    ELSE CHOOSE i \in 1..Len(times) :
             /\ QLeq(times[i], Get(bmax))
             /\ \A j \in (i + 1)..Len(times) : ~QLeq(times[j], Get(bmax))

\* both ends of the interval fall on the time axis and the slice is not empty
WindowDefined(times, b) ==
    /\ b[1] # None => \E i \in 1..Len(times) : QLeq(Get(b[1]), times[i])
    /\ b[2] # None => \E i \in 1..Len(times) : QLeq(times[i], Get(b[2]))
    /\ IMin(times, b[1]) < IMax(times, b[2])

\* C12: the last step of a read that returns.  With baseline = (bmin, bmax),
\* imin and imax as above, every row k of the returned data is the
\* calibrated row less the mean of calibrated[k, imin:imax], so that the mean
\* of data[k, imin:imax] is 0; with baseline absent the returned data are the
\* calibrated data unchanged.
C12_Baseline ==
    [][(rd.pc = "finish" /\ rd'.pc = "returned") =>
        LET cal   == DiagDot(Cals(Get(rd.info)), Get(rd.all_data))
            out   == Get(rd'.self).data
            times == Get(rd'.self).times
            b     == rd.baseline
        IN  IF b = None THEN out = cal
            ELSE WindowDefined(times, Get(b)) =>
                   LET imin == IMin(times, Get(b)[1])
                       imax == IMax(times, Get(b)[2])
                   IN  /\ out.nr = cal.nr /\ out.nc = cal.nc
                       /\ \A k \in 1..cal.nr :
                            /\ MeanOf(out.rows[k], imin + 1, imax) = Q(0)
                            /\ \A c \in 1..cal.nc :
                                 out.rows[k][c] =
                                    QSub(cal.rows[k][c],
                                         MeanOf(cal.rows[k], imin + 1, imax))
      ]_vars

\* a read of three samples corrected over the last two of them
C12_Witness ==
    /\ phase = "read" /\ rd.pc = "returned"
    /\ rd.baseline = Some(<<Some(QNorm(-1, 2)), Some(Q(0))>>)
    /\ Len(rd.times) = 3
    /\ \A k \in 1..Get(rd.self).data.nr :
          /\ MeanOf(Get(rd.self).data.rows[k], 2, 3) = Q(0)
          /\ Get(rd.self).data.rows[k][1] # Q(0)

\* ------------------------------------------------------ the encoders alone
\* A caller of write.py: a file opened for writing, tags written one after
\* the other with the encoders, end_file at the end.
EncInit ==
    /\ file = Std
    /\ phase = "encode"
    /\ rd = NewCall("src", 0, None)
    /\ wr = [NoSave EXCEPT !.pc = "encode", !.fid = "open"]
    /\ ave = None

Encoding == phase = "encode" /\ wr.fid = "open" /\ Len(wr.out) < MaxTags

Encode(tag) ==
    /\ wr' = Emit(wr, <<tag>>)
    /\ UNCHANGED <<file, phase, rd, ave>>

EncodeInt ==
    Encoding /\ \E data \in {-1, 0, 7} : Encode(write_int("FIFF_NCHAN", data))

EncodeFloat ==
    Encoding /\ \E data \in {Q(0), QNorm(9, 2)} : Encode(write_float("FIFF_SFREQ", data))

EncodeDouble ==
    Encoding /\ \E data \in {Q(0), QNorm(9, 2)} : Encode(write_double("FIFF_SFREQ", data))

EncodeString ==
    Encoding /\ \E n \in 0..MaxChan : Encode(write_string("FIFF_COMMENT", Str(n)))

EncodeFloatMatrix ==
    Encoding /\ \E nr \in 1..MaxChan, nc \in 1..(MaxChan + 1) :
        Encode(write_float_matrix("FIFF_EPOCH", RawEpoch(1, nr, nc)))

EncodeId ==
    Encoding /\ Encode(write_id("FIFF_BLOCK_ID", "new_id"))

EncodeBlock ==
    Encoding /\ \E kind \in {"FIFFB_MEAS", "FIFFB_EVOKED"} :
        \/ Encode(start_block(kind))
        \/ Encode(end_block(kind))

EncodeCoordTrans ==
    Encoding /\ \E trans \in {DevHeadT, CtfHeadT} : Encode(write_coord_trans(trans))

EncodeChInfo ==
    Encoding /\ \E n \in 0..MaxName : Encode(write_ch_info(ChRec(1, 1, Str(n))))

EncodeDigPoint ==
    Encoding /\ \E i \in 1..2 : Encode(write_dig_point(DigPoint(i)))

EncodeEndFile ==
    /\ phase = "encode" /\ wr.fid = "open"
    /\ wr' = [Emit(wr, <<end_file_tag>>) EXCEPT !.fid = "closed"]
    /\ UNCHANGED <<file, phase, rd, ave>>

EncNext ==
    \/ EncodeInt \/ EncodeFloat \/ EncodeDouble \/ EncodeString
    \/ EncodeFloatMatrix \/ EncodeId \/ EncodeBlock \/ EncodeCoordTrans
    \/ EncodeChInfo \/ EncodeDigPoint \/ EncodeEndFile

EncSpec == EncInit /\ [][EncNext]_vars

C14_LocalSfreq ==
    (ReadsOneUnit /\ rd.pc = "returned"
        /\ file.lsfreq # None /\ Get(file.lsfreq) > 0) =>
        LET D     == Get(rd.self)
            sfreq == F32(Q(Get(file.lsfreq)))
        IN  /\ D.info.sfreq = sfreq
            /\ \A i \in 1..Len(D.times) :
                  D.times[i] = QDiv(Q(D.first + i - 1), sfreq)

\* the kinds of the blocks open before tag i of s, the last opened first;
\* <<"unbalanced">> is put on top when a block-end meets no start of its kind
RECURSIVE OpenBlocks(_, _)
OpenBlocks(s, i) ==
    IF i <= 1 THEN <<>>
    ELSE LET before == OpenBlocks(s, i - 1)
             t      == s[i - 1]
         IN  IF t.kind = "FIFF_BLOCK_START" THEN <<t.data>> \o before
             ELSE IF t.kind = "FIFF_BLOCK_END"
                  THEN IF before # <<>> /\ Head(before) = t.data THEN Tail(before)
                       ELSE <<"unbalanced">> \o before
             ELSE before

\* every block-start of kind `inner` is written with exactly the blocks
\* `outer` open around it
NestedIn(s, inner, outer) ==
    \A i \in 1..Len(s) :
        (s[i].kind = "FIFF_BLOCK_START" /\ s[i].data = inner) =>
            OpenBlocks(s, i) = outer

WellFormed(s) ==
    /\ Len(s) >= 4
    /\ s[1].kind = "FIFF_FILE_ID" /\ s[1].type = "FIFFT_ID_STRUCT"
    /\ s[2].kind = "FIFF_DIR_POINTER" /\ s[2].type = "FIFFT_INT" /\ s[2].data = -1
    /\ s[3].kind = "FIFF_FREE_LIST" /\ s[3].type = "FIFFT_INT" /\ s[3].data = -1
    /\ OpenBlocks(s, Len(s) + 1) = <<>>
    /\ \E i \in 1..Len(s) : s[i].kind = "FIFF_BLOCK_START" /\ s[i].data = "FIFFB_ASPECT"
    /\ NestedIn(s, "FIFFB_ASPECT", <<"FIFFB_EVOKED", "FIFFB_PROCESSED_DATA", "FIFFB_MEAS">>)
    /\ NestedIn(s, "FIFFB_EVOKED", <<"FIFFB_PROCESSED_DATA", "FIFFB_MEAS">>)
    /\ NestedIn(s, "FIFFB_PROCESSED_DATA", <<"FIFFB_MEAS">>)
    /\ NestedIn(s, "FIFFB_MEAS", <<>>)
    /\ s[Len(s)].kind = "FIFF_NOP" /\ s[Len(s)].type = "FIFFT_VOID"
    /\ s[Len(s)].size = 0 /\ s[Len(s)].next = "NONE"
    /\ \A i \in 1..(Len(s) - 1) : s[i].kind # "FIFF_NOP"

\* C15: once write_evoked has returned, the tags it wrote are well-formed:
\* a file-id tag, a directory-pointer tag of -1 and a free-list tag of -1
\* come first; every block-start is closed by a block-end of its kind, the
\* last opened first, and no block stays open; the aspect block lies in an
\* evoked block, that in the processed-data block, that in the measurement
\* block; the last tag is the zero-length sentinel, the handle is closed and
\* nothing is written after it.
C15_WellFormedStream ==
    wr.pc = "returned" => WellFormed(wr.out) /\ wr.fid = "closed"

\* a finished write that carried blocks over from its source file
C15_Witness ==
    /\ phase = "write" /\ wr.pc = "returned" /\ WellFormed(wr.out)
    /\ \E i \in 1..Len(wr.out) :
          wr.out[i].kind = "FIFF_BLOCK_START" /\ wr.out[i].data = "FIFFB_ISOTRAK"

====
